---------------------------- MODULE Spec2Model ----------------------------
(***************************************************************************)
(* Guardian file integrity monitor (src/guardian.py): the exclusion        *)
(* filter, the directory scanner, the SQLite baseline store and the diff   *)
(* of check_integrity.                                                     *)
(*                                                                         *)
(* A path string is a sequence of one-character strings, so that the       *)
(* string operations of the code (startswith, the glob match of a path     *)
(* component, the split into components) are computed and not assumed.     *)
(***************************************************************************)
EXTENDS Integers, Sequences, FiniteSets, TLC

VARIABLES
    fs,              \* the file system: file path -> whether it exists, its stat data and content
    dirs,            \* the set of directories that exist
    clock,           \* the store's CURRENT_TIMESTAMP, in whole seconds
    baselines,       \* table baselines, in rowid order (row i has id i)
    files,           \* table files, in rowid order
    change_history,  \* table change_history, in rowid order
    txn,             \* a create_baseline transaction in progress: its uncommitted rows
    reader,          \* a concurrent reader: get_latest_baseline, then get_baseline_files
    op,              \* the last call made: its name, arguments and return value
    calls            \* the check_integrity calls that run concurrently: each one's position and locals

vars == <<fs, dirs, clock, baselines, files, change_history, txn, reader, op, calls>>

(***************************************************************************)
(* Bounds of the model.                                                    *)
(***************************************************************************)
MaxPathLen == 4      \* longest path string handed to _should_exclude alone
MaxBaselines == 2    \* baselines created in one run
MaxHistory == 2      \* change_history rows after which no further change is recorded
MaxClock == 1        \* seconds the clock advances in one run
MaxSizeLen == 4      \* longest size string handed to _parse_size

(***************************************************************************)
(* Values the code gets from Python and SQL.                               *)
(***************************************************************************)
None == "None"       \* Python None / SQL NULL in a text column
NoneInt == 0 - 1     \* Python None / SQL NULL in an integer column

(***************************************************************************)
(* Strings.                                                                *)
(***************************************************************************)
Sep == "/"

\* A variant of startswith that takes a prefix only where it ends at the end
\* of a path component.
startswith_boundary(s, prefix) ==
    /\ Len(prefix) <= Len(s)
    /\ SubSeq(s, 1, Len(prefix)) = prefix
    /\ (Len(s) = Len(prefix) \/ s[Len(prefix) + 1] = Sep)

\* str.startswith(prefix), as Python computes it: a comparison of the first
\* len(prefix) characters, whatever follows them.
startswith(s, prefix) ==
    /\ Len(prefix) <= Len(s)
    /\ SubSeq(s, 1, Len(prefix)) = prefix

\* The components of a path string between separators, empty ones included.
RECURSIVE split_sep(_)
split_sep(s) ==
    IF \A i \in 1..Len(s) : s[i] # Sep
    THEN <<s>>
    ELSE LET i == CHOOSE k \in 1..Len(s) :
                      s[k] = Sep /\ \A j \in 1..(k - 1) : s[j] # Sep
         IN <<SubSeq(s, 1, i - 1)>> \o split_sep(SubSeq(s, i + 1, Len(s)))

\* pathlib's parse_parts on POSIX: the root "/" is a part of its own, and
\* empty components and "." components are dropped.
parse_parts(s) ==
    LET comps == SelectSeq(split_sep(s), LAMBDA c : c # <<>> /\ c # <<".">>)
    IN IF s # <<>> /\ s[1] = Sep THEN <<(<<Sep>>)>> \o comps ELSE comps

is_rooted(s) == s # <<>> /\ s[1] = Sep

\* PurePath.name: the last component, or the empty string for a bare root.
path_name(s) ==
    LET parts == parse_parts(s)
    IN IF parts = <<>> \/ (is_rooted(s) /\ Len(parts) = 1)
       THEN <<>>
       ELSE parts[Len(parts)]

\* fnmatch.fnmatchcase(name, pat) for patterns made of literals, "*", "?"
\* and a character class "[...]" (without "!" and ranges); an unclosed "["
\* is a literal.
class_end(pat) ==
    IF \E j \in 3..Len(pat) : pat[j] = "]"
    THEN CHOOSE j \in 3..Len(pat) : pat[j] = "]" /\ \A k \in 3..(j - 1) : pat[k] # "]"
    ELSE 0

RECURSIVE fnmatchcase(_, _)
fnmatchcase(name, pat) ==
    IF pat = <<>> THEN name = <<>>
    ELSE IF Head(pat) = "*"
         THEN fnmatchcase(name, Tail(pat))
              \/ (name # <<>> /\ fnmatchcase(Tail(name), pat))
    ELSE IF Head(pat) = "?"
         THEN name # <<>> /\ fnmatchcase(Tail(name), Tail(pat))
    ELSE IF Head(pat) = "[" /\ class_end(pat) # 0
         THEN /\ name # <<>>
              /\ \E k \in 2..(class_end(pat) - 1) : pat[k] = Head(name)
              /\ fnmatchcase(Tail(name), SubSeq(pat, class_end(pat) + 1, Len(pat)))
    ELSE name # <<>> /\ Head(name) = Head(pat)
         /\ fnmatchcase(Tail(name), Tail(pat))

\* PurePath.match(pattern): the components are matched from the right; a
\* rooted pattern must have as many parts as the path, a relative one at
\* most as many.
path_match(s, pattern) ==
    LET parts == parse_parts(s)
        pat   == parse_parts(pattern)
        n     == Len(parts)
        m     == Len(pat)
    IN /\ m > 0
       /\ (is_rooted(pattern) => is_rooted(s) /\ m = n)
       /\ m <= n
       /\ \A i \in 0..(m - 1) :
             (is_rooted(pattern) /\ i = m - 1)
             \/ fnmatchcase(parts[n - i], pat[m - i])

(***************************************************************************)
(* Configuration (GuardianConfig): the exclusion rules and the size limit  *)
(* the scanner reads.  The rule set of the model has one rule of each kind *)
(* the defaults of load_defaults have: a suffix glob (as "*.tmp"), a plain *)
(* name (as ".DS_Store"), and a path prefix (as "/tmp"); "[k]" is a name   *)
(* that is also a character class.                                         *)
(***************************************************************************)
exclude_patterns == << <<"*", ".", "k">>, <<"x">>, <<"[", "k", "]">> >>
exclude_paths == << <<"/", "t">> >>
max_file_size == 5

\* The two loops of _should_exclude, each returning at its first hit.
RECURSIVE patterns_loop(_, _)
patterns_loop(file_path, i) ==
    IF i > Len(exclude_patterns) THEN FALSE
    ELSE IF path_match(file_path, exclude_patterns[i])
            \/ path_name(file_path) = exclude_patterns[i]
         THEN TRUE
         ELSE patterns_loop(file_path, i + 1)

RECURSIVE paths_loop(_, _)
paths_loop(file_path, i) ==
    IF i > Len(exclude_paths) THEN FALSE
    ELSE IF startswith(file_path, exclude_paths[i])
         THEN TRUE
         ELSE paths_loop(file_path, i + 1)

should_exclude(file_path) ==
    IF patterns_loop(file_path, 1) THEN TRUE
    ELSE IF paths_loop(file_path, 1) THEN TRUE
    ELSE FALSE

(***************************************************************************)
(* The file system the scanner walks.  AllDirs and AllFiles are the        *)
(* entries that can exist, in the order a directory listing gives them;    *)
(* dirs and DOMAIN fs say which of them exist now.                         *)
(***************************************************************************)
dir_d  == <<"/", "d">>
dir_de == <<"/", "d", "/", "e">>
dir_dx == <<"/", "d", "/", "x">>
dir_dk == <<"/", "d", ".", "k">>
dir_t  == <<"/", "t">>
dir_tx == <<"/", "t", "x">>
dir_d_slash == <<"/", "d", "/">>     \* another spelling of dir_d
AllDirs == <<dir_d, dir_de, dir_dx, dir_dk, dir_t, dir_tx>>

file_d_a  == <<"/", "d", "/", "a">>
file_d_b  == <<"/", "d", "/", "b">>
file_d_ak == <<"/", "d", "/", "a", ".", "k">>
file_de_a == <<"/", "d", "/", "e", "/", "a">>
file_dx_a == <<"/", "d", "/", "x", "/", "a">>
file_dk_a == <<"/", "d", ".", "k", "/", "a">>
file_t_a  == <<"/", "t", "/", "a">>
file_tx_a == <<"/", "t", "x", "/", "a">>
AllFiles == <<file_d_a, file_d_b, file_d_ak, file_de_a, file_dx_a, file_dk_a,
              file_t_a, file_tx_a>>

\* The byte length of a file content (st_size).
content_size(content) ==
    CASE content = "hello" -> 5
      [] content = "world!" -> 6
      [] content = "new" -> 3
      [] OTHER -> 0

\* st_mode of a regular file with permissions rw-r--r-- : 0o100644.
S_IFREG_644 == 33188

\* What os.stat and open/read give for a file written with `content`.
file_entry(content) ==
    [exists |-> TRUE, content |-> content, st_size |-> content_size(content), st_mtime |-> 0,
     st_mode |-> S_IFREG_644, st_ino |-> 1, statable |-> TRUE, readable |-> TRUE]

\* A file os.walk lists and os.stat succeeds on, that open() or read() fails
\* on (no read permission, an I/O error).
unreadable_entry(content) == [file_entry(content) EXCEPT !.readable = FALSE]

\* A file os.walk lists and os.stat fails on (a dangling symbolic link, a
\* file removed between the listing and the stat).
unstatable_entry ==
    [exists |-> TRUE, content |-> "", st_size |-> 0, st_mtime |-> 0,
     st_mode |-> 0, st_ino |-> 0, statable |-> FALSE, readable |-> FALSE]

\* A path at which there is no file.
no_file ==
    [exists |-> FALSE, content |-> "", st_size |-> 0, st_mtime |-> 0,
     st_mode |-> 0, st_ino |-> 0, statable |-> FALSE, readable |-> FALSE]

FileSet == {AllFiles[i] : i \in 1..Len(AllFiles)}
DirSet == {AllDirs[i] : i \in 1..Len(AllDirs)}

is_file(p) == p \in FileSet /\ fs[p].exists

\* os.path.dirname and os.path.basename of a path string without a
\* trailing separator.
last_sep(s) ==
    IF \E i \in 1..Len(s) : s[i] = Sep
    THEN CHOOSE i \in 1..Len(s) : s[i] = Sep /\ \A j \in (i + 1)..Len(s) : s[j] # Sep
    ELSE 0

dirname(s) == IF last_sep(s) <= 1 THEN SubSeq(s, 1, last_sep(s))
              ELSE SubSeq(s, 1, last_sep(s) - 1)

basename(s) == SubSeq(s, last_sep(s) + 1, Len(s))

\* os.path.join(root, name) for a relative name.
path_join(root, name) ==
    IF root = <<>> \/ root[Len(root)] = Sep THEN root \o name
    ELSE root \o <<Sep>> \o name

\* os.path.abspath of an absolute path: normpath, which collapses repeated
\* separators and drops a trailing one.
RECURSIVE join_parts(_)
join_parts(parts) ==
    IF parts = <<>> THEN <<>>
    ELSE <<Sep>> \o Head(parts) \o join_parts(Tail(parts))

abspath(s) ==
    LET comps == SelectSeq(split_sep(s), LAMBDA c : c # <<>> /\ c # <<".">>)
    IN IF comps = <<>> THEN <<Sep>> ELSE join_parts(comps)

\* The entries of the tree: _should_exclude, dirname and basename of each are
\* computed once, by the definitions above, and looked up during the walk.
Entries == FileSet \cup DirSet
excluded_entries == {p \in Entries : should_exclude(p)}
dirname_of == [p \in Entries |-> dirname(p)]
basename_of == [p \in Entries |-> basename(p)]

is_excluded(p) == IF p \in Entries THEN p \in excluded_entries ELSE should_exclude(p)

\* os.path.exists
path_exists(p) == p \in dirs \/ is_file(p)

\* One step of os.walk at `root`: the names of its sub-directories and of
\* its files.
listdir_dirs(root) ==
    SelectSeq(AllDirs, LAMBDA d : d \in dirs /\ dirname_of[d] = root)

listdir_files(root) ==
    SelectSeq(AllFiles, LAMBDA f : is_file(f) /\ dirname_of[f] = root)

(***************************************************************************)
(* GuardianScanner                                                         *)
(***************************************************************************)
sha256_hexdigest(content) == "sha256:" \o content
sha1_hexdigest(content) == "sha1:" \o content
md5_hexdigest(content) == "md5:" \o content

\* A variant of calculate_hashes that gives up on the first digest only.
calculate_hashes_mixed(file_path) ==
    IF fs[file_path].readable
    THEN <<sha256_hexdigest(fs[file_path].content),
           sha1_hexdigest(fs[file_path].content),
           md5_hexdigest(fs[file_path].content)>>
    ELSE <<"", sha1_hexdigest(""), md5_hexdigest("")>>

\* _calculate_hashes: the three digests, or three empty strings when the
\* file cannot be opened or read.
calculate_hashes(file_path) ==
    IF fs[file_path].readable
    THEN <<sha256_hexdigest(fs[file_path].content),
           sha1_hexdigest(fs[file_path].content),
           md5_hexdigest(fs[file_path].content)>>
    ELSE <<"", "", "">>

\* oct(st_mode)[-3:] of a mode of at least three octal digits.
oct_digit(n) == CASE n = 0 -> "0" [] n = 1 -> "1" [] n = 2 -> "2" [] n = 3 -> "3"
                  [] n = 4 -> "4" [] n = 5 -> "5" [] n = 6 -> "6" [] OTHER -> "7"

oct_last3(mode) ==
    oct_digit((mode \div 64) % 8) \o oct_digit((mode \div 8) % 8) \o oct_digit(mode % 8)

FileInfo(file_path, stat_info, hashes) ==
    [path |-> file_path, size |-> stat_info.st_size,
     modified_time |-> stat_info.st_mtime,
     hash_sha256 |-> hashes[1], hash_sha1 |-> hashes[2], hash_md5 |-> hashes[3],
     permissions |-> oct_last3(stat_info.st_mode), inode |-> stat_info.st_ino]

\* A variant of scan_file without the test of _should_exclude.
scan_file_unfiltered(file_path) ==
    IF ~fs[file_path].statable THEN <<>>
    ELSE IF fs[file_path].st_size > max_file_size THEN <<>>
    ELSE <<FileInfo(file_path, fs[file_path], calculate_hashes(file_path))>>

\* A variant of scan_file that leaves out a file it could not hash.
scan_file_skip_unhashed(file_path) ==
    IF is_excluded(file_path) THEN <<>>
    ELSE IF ~fs[file_path].statable THEN <<>>
    ELSE IF fs[file_path].st_size > max_file_size THEN <<>>
    ELSE IF calculate_hashes(file_path) = <<"", "", "">> THEN <<>>
    ELSE <<FileInfo(file_path, fs[file_path], calculate_hashes(file_path))>>

\* A variant of scan_file that also skips a file of exactly max_file_size.
scan_file_gate_ge(file_path) ==
    IF is_excluded(file_path) THEN <<>>
    ELSE IF ~fs[file_path].statable THEN <<>>
    ELSE IF fs[file_path].st_size >= max_file_size THEN <<>>
    ELSE <<FileInfo(file_path, fs[file_path], calculate_hashes(file_path))>>

\* The body of the loop over the file names of one directory: the list of
\* FileInfo (empty or one) a file name adds to `files`.
scan_file(file_path) ==
    IF is_excluded(file_path) THEN <<>>
    ELSE IF ~fs[file_path].statable THEN <<>>
    ELSE IF fs[file_path].st_size > max_file_size THEN <<>>
    ELSE <<FileInfo(file_path, fs[file_path], calculate_hashes(file_path))>>

\* A variant of concat_map_files without the try around one file: a failing
\* os.stat ends the loop.
RECURSIVE concat_map_files_abort(_, _)
concat_map_files_abort(root, names) ==
    IF names = <<>> THEN <<>>
    ELSE IF /\ ~is_excluded(path_join(root, basename_of[Head(names)]))
            /\ ~fs[path_join(root, basename_of[Head(names)])].statable
         THEN <<>>
         ELSE scan_file(path_join(root, basename_of[Head(names)]))
              \o concat_map_files_abort(root, Tail(names))

\* The loop over the file names of one directory.
RECURSIVE concat_map_files(_, _)
concat_map_files(root, names) ==
    IF names = <<>> THEN <<>>
    ELSE scan_file(path_join(root, basename_of[Head(names)]))
         \o concat_map_files(root, Tail(names))

\* A variant of prune_dirs that keeps no sub-directory: a scan of the root
\* directory alone.
prune_dirs_all(root, subdirs) == <<>>

\* dirs[:] = [d for d in dirs if not self._should_exclude(os.path.join(root, d))]
prune_dirs(root, subdirs) ==
    SelectSeq(subdirs,
              LAMBDA d : ~is_excluded(path_join(root, basename_of[d])))

\* os.walk, top down: the files of `root`, then each kept sub-directory.
RECURSIVE walk(_)
RECURSIVE walk_each(_, _)
walk_each(root, subdirs) ==
    IF subdirs = <<>> THEN <<>>
    ELSE walk(path_join(root, basename_of[Head(subdirs)]))
         \o walk_each(root, Tail(subdirs))

walk(root) ==
    IF root \notin dirs THEN <<>>
    ELSE concat_map_files(root, listdir_files(root))
         \o walk_each(root, prune_dirs(root, listdir_dirs(root)))

\* scan_directory: the FileInfo list of a root, empty when it does not exist.
scan_directory(directory) ==
    LET directory_abs == abspath(directory)
    IN IF ~path_exists(directory_abs) THEN <<>>
       ELSE walk(directory_abs)

(***************************************************************************)
(* Python dictionaries keyed by path, as the list of their items in        *)
(* insertion order: assigning to a key that is present keeps its place.    *)
(***************************************************************************)
dict_has(d, k) == \E i \in 1..Len(d) : d[i].key = k

dict_get(d, k) == d[CHOOSE i \in 1..Len(d) : d[i].key = k].value

dict_set(d, k, v) ==
    IF dict_has(d, k)
    THEN [i \in 1..Len(d) |-> IF d[i].key = k THEN [key |-> k, value |-> v] ELSE d[i]]
    ELSE Append(d, [key |-> k, value |-> v])

dict_keys(d) == {d[i].key : i \in 1..Len(d)}

\* {f.path: f for f in current_files}
RECURSIVE dict_by_path(_, _)
dict_by_path(d, infos) ==
    IF infos = <<>> THEN d
    ELSE dict_by_path(dict_set(d, Head(infos).path, Head(infos)), Tail(infos))

RECURSIVE sum_sizes(_)
sum_sizes(infos) ==
    IF infos = <<>> THEN 0 ELSE Head(infos).size + sum_sizes(Tail(infos))

(***************************************************************************)
(* GuardianDatabase.  Each method runs in a transaction of its own, which  *)
(* commits when the method returns: its result is one step on the tables.  *)
(***************************************************************************)
\* INSERT INTO baselines: id by AUTOINCREMENT, created_at by CURRENT_TIMESTAMP.
\* A variant of baseline_row with the two numbers in each other's column.
baseline_row_swapped(table, name, path, infos) ==
    [id |-> Len(table) + 1, name |-> name, created_at |-> clock, path |-> path,
     file_count |-> sum_sizes(infos), total_size |-> Len(infos)]

\* The row INSERT INTO baselines adds: id from AUTOINCREMENT, created_at from
\* DEFAULT CURRENT_TIMESTAMP.
baseline_row(table, name, path, infos) ==
    [id |-> Len(table) + 1, name |-> name, created_at |-> clock, path |-> path,
     file_count |-> Len(infos), total_size |-> sum_sizes(infos)]

file_row(baseline_id, info) ==
    [baseline_id |-> baseline_id, file_path |-> info.path, file_size |-> info.size,
     modified_time |-> info.modified_time, hash_sha256 |-> info.hash_sha256,
     hash_sha1 |-> info.hash_sha1, hash_md5 |-> info.hash_md5,
     permissions |-> info.permissions, inode |-> info.inode]

\* The rows create_baseline adds to table files.
file_rows(baseline_id, infos) ==
    [i \in 1..Len(infos) |-> file_row(baseline_id, infos[i])]

\* A variant of files_after_create that drops the rows of the earlier
\* baselines of the path.
files_replacing(table, path, baseline_id, infos) ==
    SelectSeq(table, LAMBDA r : baselines[r.baseline_id].path # path)
    \o file_rows(baseline_id, infos)

\* Table files after create_baseline(name, path, infos) returned baseline_id.
files_after_create(table, path, baseline_id, infos) ==
    table \o file_rows(baseline_id, infos)

\* get_baseline_files: SELECT ... FROM files WHERE baseline_id = ?, into a
\* dictionary keyed by file_path.
RECURSIVE rows_to_dict(_, _)
rows_to_dict(d, rows) ==
    IF rows = <<>> THEN d
    ELSE rows_to_dict(
             dict_set(d, Head(rows).file_path,
                      [path |-> Head(rows).file_path, size |-> Head(rows).file_size,
                       modified_time |-> Head(rows).modified_time,
                       hash_sha256 |-> Head(rows).hash_sha256,
                       hash_sha1 |-> Head(rows).hash_sha1,
                       hash_md5 |-> Head(rows).hash_md5,
                       permissions |-> Head(rows).permissions,
                       inode |-> Head(rows).inode]),
             Tail(rows))

\* A variant of get_baseline_files_in without the WHERE clause.
get_baseline_files_in_all(table, baseline_id) == rows_to_dict(<<>>, table)

get_baseline_files_in(table, baseline_id) ==
    rows_to_dict(<<>>, SelectSeq(table, LAMBDA r : r.baseline_id = baseline_id))

get_baseline_files(baseline_id) == get_baseline_files_in(files, baseline_id)

\* get_latest_baseline: SELECT id FROM baselines WHERE path = ? ORDER BY
\* created_at DESC LIMIT 1.  created_at has a resolution of one second and
\* SQL leaves the order of rows with equal keys open: every row of the path
\* with the greatest created_at can be the one returned.
\* A variant of ids_of_path that compares the normalised paths.
ids_of_path_normalised(table, path) ==
    {i \in 1..Len(table) : abspath(table[i].path) = abspath(path)}

\* WHERE path = ?
ids_of_path(table, path) == {i \in 1..Len(table) : table[i].path = path}

latest_by_id(table, path) ==
    {i \in ids_of_path(table, path) : \A j \in ids_of_path(table, path) : j <= i}

latest_candidates(table, path) ==
    {i \in ids_of_path(table, path) :
        \A j \in ids_of_path(table, path) : table[j].created_at <= table[i].created_at}

\* record_changes: one INSERT INTO change_history per ChangeReport.
history_row(baseline_id, change) ==
    [baseline_id |-> baseline_id, change_type |-> change.change_type,
     file_path |-> change.file_path, old_hash |-> change.old_hash,
     new_hash |-> change.new_hash, old_size |-> change.old_size,
     new_size |-> change.new_size, detected_at |-> clock]

\* A variant of record_changes that drops the earlier rows of the baseline.
record_changes_replacing(table, baseline_id, changes) ==
    SelectSeq(table, LAMBDA r : r.baseline_id # baseline_id)
    \o [i \in 1..Len(changes) |-> history_row(baseline_id, changes[i])]

\* Table change_history after record_changes(baseline_id, changes).
record_changes(table, baseline_id, changes) ==
    table \o [i \in 1..Len(changes) |-> history_row(baseline_id, changes[i])]

(***************************************************************************)
(* Guardian.check_integrity: the comparison of the baseline with the scan. *)
(***************************************************************************)
ChangeReport(change_type, file_path, old_hash, new_hash, old_size, new_size) ==
    [change_type |-> change_type, file_path |-> file_path, old_hash |-> old_hash,
     new_hash |-> new_hash, old_size |-> old_size, new_size |-> new_size]

\* A variant of baseline_item_changes that reports no removed file.
baseline_item_changes_no_removed(item, current_file_dict) ==
    IF dict_has(current_file_dict, item.key)
    THEN IF item.value.hash_sha256 # dict_get(current_file_dict, item.key).hash_sha256
         THEN <<ChangeReport("MODIFIED", item.key, item.value.hash_sha256,
                             dict_get(current_file_dict, item.key).hash_sha256,
                             item.value.size,
                             dict_get(current_file_dict, item.key).size)>>
         ELSE <<>>
    ELSE <<>>

\* A variant of baseline_item_changes that compares the whole records.
baseline_item_changes_any_field(item, current_file_dict) ==
    IF dict_has(current_file_dict, item.key)
    THEN IF item.value # dict_get(current_file_dict, item.key)
         THEN <<ChangeReport("MODIFIED", item.key, item.value.hash_sha256,
                             dict_get(current_file_dict, item.key).hash_sha256,
                             item.value.size,
                             dict_get(current_file_dict, item.key).size)>>
         ELSE <<>>
    ELSE <<ChangeReport("REMOVED", item.key, item.value.hash_sha256, None,
                        NoneInt, NoneInt)>>

\* A variant of baseline_item_changes that compares the digests only when
\* both are there.
baseline_item_changes_skip_unhashed(item, current_file_dict) ==
    IF dict_has(current_file_dict, item.key)
    THEN IF /\ item.value.hash_sha256 # ""
            /\ dict_get(current_file_dict, item.key).hash_sha256 # ""
            /\ item.value.hash_sha256 # dict_get(current_file_dict, item.key).hash_sha256
         THEN <<ChangeReport("MODIFIED", item.key, item.value.hash_sha256,
                             dict_get(current_file_dict, item.key).hash_sha256,
                             item.value.size,
                             dict_get(current_file_dict, item.key).size)>>
         ELSE <<>>
    ELSE <<ChangeReport("REMOVED", item.key, item.value.hash_sha256, None,
                        NoneInt, NoneInt)>>

\* The body of the first loop, for one item of baseline_files.
baseline_item_changes(item, current_file_dict) ==
    IF dict_has(current_file_dict, item.key)
    THEN IF item.value.hash_sha256 # dict_get(current_file_dict, item.key).hash_sha256
         THEN <<ChangeReport("MODIFIED", item.key, item.value.hash_sha256,
                             dict_get(current_file_dict, item.key).hash_sha256,
                             item.value.size,
                             dict_get(current_file_dict, item.key).size)>>
         ELSE <<>>
    ELSE <<ChangeReport("REMOVED", item.key, item.value.hash_sha256, None,
                        NoneInt, NoneInt)>>

\* A variant of current_item_changes that fills the old fields of an ADDED
\* record with an empty digest and a size of zero.
current_item_changes_zero_old(item, baseline_files) ==
    IF ~dict_has(baseline_files, item.key)
    THEN <<ChangeReport("ADDED", item.key, "", item.value.hash_sha256,
                        0, item.value.size)>>
    ELSE <<>>

\* The body of the second loop, for one item of current_file_dict.
current_item_changes(item, baseline_files) ==
    IF ~dict_has(baseline_files, item.key)
    THEN <<ChangeReport("ADDED", item.key, None, item.value.hash_sha256,
                        NoneInt, item.value.size)>>
    ELSE <<>>

RECURSIVE first_loop(_, _)
first_loop(items, current_file_dict) ==
    IF items = <<>> THEN <<>>
    ELSE baseline_item_changes(Head(items), current_file_dict)
         \o first_loop(Tail(items), current_file_dict)

RECURSIVE second_loop(_, _)
second_loop(items, baseline_files) ==
    IF items = <<>> THEN <<>>
    ELSE current_item_changes(Head(items), baseline_files)
         \o second_loop(Tail(items), baseline_files)

compare_files(baseline_files, current_file_dict) ==
    first_loop(baseline_files, current_file_dict)
    \o second_loop(current_file_dict, baseline_files)

(***************************************************************************)
(* The calls.  op records the call just made: its name, its arguments and  *)
(* what it returned; a step of the environment (the clock, the monitored   *)
(* tree) clears it.                                                        *)
(***************************************************************************)
NoCall ==
    [name |-> "none", path |-> <<>>, id |-> NoneInt, changes |-> <<>>,
     scan |-> <<>>, base |-> <<>>, cur |-> <<>>, flag |-> FALSE]

Call(name, path, id, changes, scan, base, cur, flag) ==
    [name |-> name, path |-> path, id |-> id, changes |-> changes,
     scan |-> scan, base |-> base, cur |-> cur, flag |-> flag]

NoTxn == [pc |-> "idle", id |-> NoneInt, path |-> <<>>, baseline |-> <<>>,
          rows |-> <<>>, todo |-> <<>>]
NoReader == [pc |-> "idle", path |-> <<>>, id |-> NoneInt, seen |-> <<>>]

\* The store after GuardianDatabase.__init__ on a new database file.
InitStore ==
    /\ clock = 0
    /\ baselines = <<>>
    /\ files = <<>>
    /\ change_history = <<>>
    /\ txn = NoTxn
    /\ reader = NoReader
    /\ calls = <<>>

\* The paths, names and file contents the calls of Spec are made with.
MonitorPaths == {dir_d, dir_de}
MonitorFiles == {file_d_a}
Contents == {"hello", "new", "world!"}
BaselineNames == {None}

\* name = f"baseline_{datetime.now().strftime('%Y%m%d_%H%M%S')}" when no
\* name is given.
default_name(name) == IF name = None THEN "baseline_" \o ToString(clock) ELSE name

Tick ==
    /\ clock < MaxClock
    /\ clock' = clock + 1
    /\ op' = NoCall
    /\ UNCHANGED <<fs, dirs, baselines, files, change_history, txn, reader, calls>>

\* The monitored tree changes under the program: a file is written ...
WriteFile(f, content) ==
    /\ ~fs[f].exists \/ fs[f].content # content
    /\ dirname_of[f] \in dirs
    /\ fs' = [fs EXCEPT ![f] = file_entry(content)]
    /\ op' = NoCall
    /\ UNCHANGED <<dirs, clock, baselines, files, change_history, txn, reader, calls>>

\* ... or removed.
RemoveFile(f) ==
    /\ fs[f].exists
    /\ fs' = [fs EXCEPT ![f] = no_file]
    /\ op' = NoCall
    /\ UNCHANGED <<dirs, clock, baselines, files, change_history, txn, reader, calls>>

\* A variant of GuardianCreateBaseline without the test of an empty scan.
GuardianCreateBaseline_store_empty(path, name) ==
    LET infos == scan_directory(path)
        row   == baseline_row(baselines, default_name(name), path, infos)
    IN /\ Len(baselines) < MaxBaselines
       /\ baselines' = Append(baselines, row)
       /\ files' = files_after_create(files, path, row.id, infos)
       /\ op' = Call("create_baseline", path, row.id, <<>>, infos, <<>>, <<>>, TRUE)
       /\ UNCHANGED <<fs, dirs, clock, change_history, txn, reader, calls>>

\* Guardian.create_baseline(path, name)
GuardianCreateBaseline(path, name) ==
    LET infos == scan_directory(path)
        row   == baseline_row(baselines, default_name(name), path, infos)
    IN /\ Len(baselines) < MaxBaselines
       /\ IF infos = <<>>
          THEN /\ op' = Call("create_baseline", path, NoneInt, <<>>, infos,
                             <<>>, <<>>, FALSE)
               /\ UNCHANGED <<baselines, files>>
          ELSE /\ baselines' = Append(baselines, row)
               /\ files' = files_after_create(files, path, row.id, infos)
               /\ op' = Call("create_baseline", path, row.id, <<>>, infos,
                             <<>>, <<>>, TRUE)
       /\ UNCHANGED <<fs, dirs, clock, change_history, txn, reader, calls>>

\* A variant of GuardianCheckIntegrity that, without a baseline, compares
\* the scan with an empty baseline and records the result.
GuardianCheckIntegrity_no_guard(path) ==
    /\ Len(change_history) < MaxHistory
    /\ IF latest_candidates(baselines, path) = {}
       THEN LET current_files     == scan_directory(path)
                current_file_dict == dict_by_path(<<>>, current_files)
                changes == compare_files(<<>>, current_file_dict)
            IN /\ change_history' =
                      IF changes # <<>>
                      THEN record_changes(change_history, NoneInt, changes)
                      ELSE change_history
               /\ op' = Call("check_integrity", path, NoneInt, changes,
                             current_files, <<>>, current_file_dict, FALSE)
       ELSE \E baseline_id \in latest_candidates(baselines, path) :
              LET baseline_files    == get_baseline_files(baseline_id)
                  current_files     == scan_directory(path)
                  current_file_dict == dict_by_path(<<>>, current_files)
                  changes == compare_files(baseline_files, current_file_dict)
              IN /\ change_history' =
                        IF changes # <<>>
                        THEN record_changes(change_history, baseline_id, changes)
                        ELSE change_history
                 /\ op' = Call("check_integrity", path, baseline_id, changes,
                               current_files, baseline_files, current_file_dict,
                               TRUE)
    /\ UNCHANGED <<fs, dirs, clock, baselines, files, txn, reader, calls>>

\* A variant of GuardianCheckIntegrity that, like create_baseline, gives up
\* when the scan finds no file.
GuardianCheckIntegrity_skip_empty_scan(path) ==
    /\ Len(change_history) < MaxHistory
    /\ IF latest_candidates(baselines, path) = {} \/ scan_directory(path) = <<>>
       THEN /\ op' = Call("check_integrity", path, NoneInt, <<>>, <<>>,
                          <<>>, <<>>, FALSE)
            /\ UNCHANGED change_history
       ELSE \E baseline_id \in latest_candidates(baselines, path) :
              LET baseline_files    == get_baseline_files(baseline_id)
                  current_files     == scan_directory(path)
                  current_file_dict == dict_by_path(<<>>, current_files)
                  changes == compare_files(baseline_files, current_file_dict)
              IN /\ change_history' =
                        IF changes # <<>>
                        THEN record_changes(change_history, baseline_id, changes)
                        ELSE change_history
                 /\ op' = Call("check_integrity", path, baseline_id, changes,
                               current_files, baseline_files, current_file_dict,
                               TRUE)
    /\ UNCHANGED <<fs, dirs, clock, baselines, files, txn, reader, calls>>

\* Guardian.check_integrity(path)
GuardianCheckIntegrity(path) ==
    /\ Len(change_history) < MaxHistory
    /\ IF latest_candidates(baselines, path) = {}
       THEN /\ op' = Call("check_integrity", path, NoneInt, <<>>, <<>>,
                          <<>>, <<>>, FALSE)
            /\ UNCHANGED change_history
       ELSE \E baseline_id \in latest_candidates(baselines, path) :
              LET baseline_files    == get_baseline_files(baseline_id)
                  current_files     == scan_directory(path)
                  current_file_dict == dict_by_path(<<>>, current_files)
                  changes == compare_files(baseline_files, current_file_dict)
              IN /\ change_history' =
                        IF changes # <<>>
                        THEN record_changes(change_history, baseline_id, changes)
                        ELSE change_history
                 /\ op' = Call("check_integrity", path, baseline_id, changes,
                               current_files, baseline_files, current_file_dict,
                               TRUE)
    /\ UNCHANGED <<fs, dirs, clock, baselines, files, txn, reader, calls>>

Init ==
    /\ InitStore
    /\ fs = [f \in FileSet |-> no_file]
    /\ dirs = DirSet
    /\ op = NoCall

Next ==
    \/ Tick
    \/ \E f \in MonitorFiles, content \in Contents : WriteFile(f, content)
    \/ \E f \in MonitorFiles : RemoveFile(f)
    \/ \E path \in MonitorPaths, name \in BaselineNames : GuardianCreateBaseline(path, name)
    \/ \E path \in MonitorPaths : GuardianCheckIntegrity(path)

Spec == Init /\ [][Next]_vars

(***************************************************************************)
(* GuardianDatabase called directly, as the database tests do: SpecStore.  *)
(***************************************************************************)
info_of(file_path, content) ==
    FileInfo(file_path, file_entry(content),
             <<sha256_hexdigest(content), sha1_hexdigest(content),
               md5_hexdigest(content)>>)

StorePaths == {dir_d, dir_de}
StoreQueryPaths == StorePaths \cup {dir_d_slash}
StoreInfos == { <<info_of(file_d_a, "hello")>>,
                <<info_of(file_d_a, "new"), info_of(file_d_b, "hello")>> }
StoreChanges == { <<ChangeReport("MODIFIED", file_d_a, sha256_hexdigest("hello"),
                                 sha256_hexdigest("new"), 5, 3)>> }

\* GuardianDatabase.create_baseline(name, path, files)
DbCreateBaseline(name, path, infos) ==
    LET row == baseline_row(baselines, name, path, infos)
    IN /\ Len(baselines) < MaxBaselines
       /\ baselines' = Append(baselines, row)
       /\ files' = files_after_create(files, path, row.id, infos)
       /\ op' = Call("db_create_baseline", path, row.id, <<>>, infos, <<>>, <<>>, TRUE)
       /\ UNCHANGED <<fs, dirs, clock, change_history, txn, reader, calls>>

\* GuardianDatabase.get_latest_baseline(path)
DbGetLatestBaseline(path) ==
    /\ IF latest_candidates(baselines, path) = {}
       THEN op' = Call("get_latest_baseline", path, NoneInt, <<>>, <<>>,
                       <<>>, <<>>, FALSE)
       ELSE \E b \in latest_candidates(baselines, path) :
                op' = Call("get_latest_baseline", path, b, <<>>, <<>>,
                           <<>>, <<>>, TRUE)
    /\ UNCHANGED <<fs, dirs, clock, baselines, files, change_history, txn, reader, calls>>

\* GuardianDatabase.record_changes(baseline_id, changes)
DbRecordChanges(baseline_id, changes) ==
    /\ Len(change_history) < MaxHistory
    /\ change_history' = record_changes(change_history, baseline_id, changes)
    /\ op' = Call("record_changes", <<>>, baseline_id, changes, <<>>, <<>>, <<>>, TRUE)
    /\ UNCHANGED <<fs, dirs, clock, baselines, files, txn, reader, calls>>

NextStore ==
    \/ Tick
    \/ \E path \in StorePaths, infos \in StoreInfos :
           DbCreateBaseline("weekly", path, infos)
    \/ \E path \in StoreQueryPaths : DbGetLatestBaseline(path)
    \/ \E b \in 1..Len(baselines), changes \in StoreChanges :
           DbRecordChanges(b, changes)

SpecStore == Init /\ [][NextStore]_vars

(***************************************************************************)
(* Claims on the store and on check_integrity.                             *)
(***************************************************************************)
\* The baseline created most recently for a path: ids are assigned in
\* creation order.
newest_baseline(path) == CHOOSE i \in latest_by_id(baselines, path) : TRUE

\* C2: get_latest_baseline(path) returns the id of the baseline created most
\* recently for that path (none when there is none), never an earlier one,
\* also when two baselines of the path were created in quick succession.
C2_LatestIsMostRecent ==
    op.name = "get_latest_baseline" =>
        IF ids_of_path(baselines, op.path) = {}
        THEN op.id = NoneInt
        ELSE op.id = newest_baseline(op.path)

\* C3: check_integrity(path) right after a successful create_baseline(path),
\* with no change of the tree in between, returns no ChangeReport and appends
\* nothing to the change history.
C3_NoChangeAfterBaseline ==
    [][\A path \in MonitorPaths :
          (/\ op.name = "create_baseline"
           /\ op.id # NoneInt
           /\ op.path = path
           /\ GuardianCheckIntegrity(path))
          => (op'.changes = <<>> /\ change_history' = change_history)]_vars

\* What a ChangeReport says of a file: for MODIFIED its two hashes as well.
report_of(change) ==
    IF change.change_type = "MODIFIED"
    THEN <<change.change_type, change.file_path, change.old_hash, change.new_hash>>
    ELSE <<change.change_type, change.file_path, None, None>>

\* The reports C4 asks for, given the files of a baseline and of a scan.
expected_reports(base, cur) ==
    {<<"MODIFIED", k, dict_get(base, k).hash_sha256, dict_get(cur, k).hash_sha256>> :
        k \in {q \in dict_keys(base) \cap dict_keys(cur) :
                  dict_get(base, q).hash_sha256 # dict_get(cur, q).hash_sha256}}
    \cup {<<"REMOVED", k, None, None>> : k \in dict_keys(base) \ dict_keys(cur)}
    \cup {<<"ADDED", k, None, None>> : k \in dict_keys(cur) \ dict_keys(base)}

\* C4: after a baseline is created for a directory, check_integrity returns
\* exactly one MODIFIED record per baselined file whose content changed (old
\* hash the baseline's SHA-256, new hash the current one), one REMOVED record
\* per baselined file that was deleted, one ADDED record per new file, and
\* no other record.
C4_ExactReports ==
    (op.name = "check_integrity" /\ op.id # NoneInt) =>
        LET base == get_baseline_files(newest_baseline(op.path))
            cur  == dict_by_path(<<>>, op.scan)
        IN /\ {report_of(op.changes[i]) : i \in 1..Len(op.changes)}
                 = expected_reports(base, cur)
           /\ Len(op.changes) = Cardinality(expected_reports(base, cur))

\* C5: the change history is append-only: every row of change_history stays,
\* unchanged and in its place, in every later state.
C5_HistoryAppendOnly ==
    [][/\ Len(change_history') >= Len(change_history)
       /\ \A i \in 1..Len(change_history) :
              change_history'[i] = change_history[i]]_vars

\* C5's case: a second check against the same baseline has recorded its
\* changes after those of the first.
C5_Witness ==
    /\ op.name = "check_integrity"
    /\ op.changes # <<>>
    /\ Len(change_history) >= 2
    /\ change_history[1].baseline_id = change_history[Len(change_history)].baseline_id

\* C6: a baseline is immutable: the row of every baseline and the mapping
\* get_baseline_files returns for it are the same after every operation,
\* also after a newer baseline of the same path was created.
C6_BaselinesImmutable ==
    [][/\ Len(baselines') >= Len(baselines)
       /\ \A b \in 1..Len(baselines) :
              /\ baselines'[b] = baselines[b]
              /\ get_baseline_files_in(files', b) = get_baseline_files_in(files, b)]_vars

\* C6's case: baseline 1 has files, was superseded by a newer baseline of its
\* path with other files, and changes were recorded afterwards.
C6_Witness ==
    /\ Len(baselines) >= 2
    /\ baselines[1].path = baselines[2].path
    /\ get_baseline_files(1) # <<>>
    /\ get_baseline_files(2) # get_baseline_files(1)
    /\ op.name = "record_changes"

(***************************************************************************)
(* The comparison of check_integrity on any pair of dictionaries: SpecDiff.*)
(***************************************************************************)
DiffKeys == <<file_d_a, file_d_b, file_de_a, file_dk_a>>
DiffContents == {"absent", "hello", "new"}
DiffVariants == {"touched", "collide"}

\* The records each key is compared with: the first key takes every one,
\* the last the fewest.
diff_choices(i) ==
    IF i = 1 THEN DiffContents \cup DiffVariants
    ELSE IF i = Len(DiffKeys) THEN {"absent", "hello"}
    ELSE DiffContents

\* The FileInfo of a key: of a file of the chosen content, or, "touched",
\* with the SHA-256 of "hello" and every other field different from the
\* record of "hello", or, "collide", with another SHA-256 and every other
\* field as in the record of "hello".
diff_info(file_path, choice) ==
    CASE choice = "touched" ->
           [info_of(file_path, "hello") EXCEPT
              !.size = 3, !.modified_time = 1,
              !.hash_sha1 = sha1_hexdigest("new"), !.hash_md5 = md5_hexdigest("new"),
              !.permissions = "600", !.inode = 2]
      [] choice = "collide" ->
           [info_of(file_path, "hello") EXCEPT !.hash_sha256 = sha256_hexdigest("new")]
      [] OTHER -> info_of(file_path, choice)

\* The dictionary that holds, for each key, the FileInfo of the chosen
\* content, the keys chosen "absent" left out.
RECURSIVE build_dict(_, _)
build_dict(choice, i) ==
    IF i > Len(DiffKeys) THEN <<>>
    ELSE (IF choice[i] = "absent" THEN <<>>
          ELSE <<[key |-> DiffKeys[i], value |-> diff_info(DiffKeys[i], choice[i])]>>)
         \o build_dict(choice, i + 1)

DiffDicts ==
    {build_dict(choice, 1) :
        choice \in {c \in [1..Len(DiffKeys) -> DiffContents \cup DiffVariants] :
                       \A i \in 1..Len(DiffKeys) : c[i] \in diff_choices(i)}}

InitDiff ==
    /\ InitStore
    /\ fs = [f \in FileSet |-> no_file]
    /\ dirs = DirSet
    /\ op \in {Call("diff_args", <<>>, NoneInt, <<>>, <<>>, base, cur, FALSE) :
                 base \in DiffDicts, cur \in DiffDicts}

\* Lines 564-598 of check_integrity applied to op.base and op.cur.
CompareFiles ==
    /\ op.name = "diff_args"
    /\ op' = Call("compare_files", <<>>, NoneInt, compare_files(op.base, op.cur),
                  <<>>, op.base, op.cur, TRUE)
    /\ UNCHANGED <<fs, dirs, clock, baselines, files, change_history, txn, reader, calls>>

NextDiff == CompareFiles

SpecDiff == InitDiff /\ [][NextDiff]_vars

count_of(changes, change_type) ==
    Cardinality({i \in 1..Len(changes) : changes[i].change_type = change_type})

\* The paths present on both sides with the same SHA-256: the unchanged ones.
unchanged_keys(base, cur) ==
    {k \in dict_keys(base) \cap dict_keys(cur) :
        dict_get(base, k).hash_sha256 = dict_get(cur, k).hash_sha256}

\* C1: the diff classifies every path of the union of the two key sets into
\* exactly one of unchanged, modified, removed, added: at most one record per
\* path, no record for a path outside the union or for an unchanged path,
\* and the numbers of ADDED, MODIFIED and REMOVED records plus the number of
\* unchanged paths equal the size of the union.
C1_Classification ==
    op.name = "compare_files" =>
        LET keys == dict_keys(op.base) \cup dict_keys(op.cur)
            n    == Len(op.changes)
        IN /\ \A i, j \in 1..n :
                 i # j => op.changes[i].file_path # op.changes[j].file_path
           /\ \A i \in 1..n :
                 /\ op.changes[i].file_path \in keys
                 /\ op.changes[i].file_path \notin unchanged_keys(op.base, op.cur)
                 /\ op.changes[i].change_type \in {"ADDED", "MODIFIED", "REMOVED"}
           /\ count_of(op.changes, "ADDED") + count_of(op.changes, "MODIFIED")
                 + count_of(op.changes, "REMOVED")
                 + Cardinality(unchanged_keys(op.base, op.cur))
              = Cardinality(keys)

\* C1's case: one diff with an added, a modified, a removed and an unchanged
\* path.
C1_Witness ==
    /\ op.name = "compare_files"
    /\ count_of(op.changes, "ADDED") = 1
    /\ count_of(op.changes, "MODIFIED") = 1
    /\ count_of(op.changes, "REMOVED") = 1
    /\ Cardinality(unchanged_keys(op.base, op.cur)) = 1

(***************************************************************************)
(* _should_exclude on any path string: SpecExclude.                        *)
(***************************************************************************)
Alphabet == {"/", "t", "x", ".", "k", "[", "]"}

RECURSIVE strings_upto(_)
strings_upto(n) ==
    IF n = 0 THEN {<<>>}
    ELSE LET shorter == strings_upto(n - 1)
         IN shorter \cup {Append(str, c) :
                            str \in {q \in shorter : Len(q) = n - 1}, c \in Alphabet}

InitExclude ==
    /\ InitStore
    /\ fs = [f \in FileSet |-> no_file]
    /\ dirs = DirSet
    /\ op \in {Call("exclude_args", file_path, NoneInt, <<>>, <<>>, <<>>, <<>>, FALSE) :
                 file_path \in strings_upto(MaxPathLen)}

ShouldExclude ==
    /\ op.name = "exclude_args"
    /\ op' = Call("_should_exclude", op.path, NoneInt, <<>>, <<>>, <<>>, <<>>,
                  should_exclude(op.path))
    /\ UNCHANGED <<fs, dirs, clock, baselines, files, change_history, txn, reader, calls>>

NextExclude == ShouldExclude

SpecExclude == InitExclude /\ [][NextExclude]_vars

\* A string begins with another, character by character.
has_string_prefix(str, prefix) ==
    /\ Len(prefix) <= Len(str)
    /\ \A i \in 1..Len(prefix) : str[i] = prefix[i]

\* A path is under an exclusion rule: its base name is a configured pattern,
\* or it glob-matches one, or it begins with a configured prefix string.
excluded_by_rule(file_path) ==
    \/ \E i \in 1..Len(exclude_patterns) :
          \/ path_name(file_path) = exclude_patterns[i]
          \/ path_match(file_path, exclude_patterns[i])
    \/ \E i \in 1..Len(exclude_paths) :
          has_string_prefix(file_path, exclude_paths[i])

\* C10: _should_exclude(path) is true exactly when the base name of path
\* equals a configured pattern, or path glob-matches a configured pattern,
\* or the path string begins with a configured prefix string, compared
\* without regard to path-component boundaries.
C10_ShouldExcludeIff ==
    op.name = "_should_exclude" => (op.flag <=> excluded_by_rule(op.path))

\* C10's case: "/tx" is excluded by the prefix "/t", which ends inside a
\* path component.
C10_Witness ==
    /\ op.name = "_should_exclude"
    /\ op.path = dir_tx
    /\ op.flag

(***************************************************************************)
(* scan_directory on any tree of the universe and any root: SpecScan.      *)
(***************************************************************************)
ScanContents == {"absent", "hello", "world!"}
ScanErrors == {"unreadable", "unstatable"}

\* The states each file of the tree is scanned in.
file_choices(f) ==
    IF f \in {file_d_a, file_d_b} THEN ScanContents \cup ScanErrors
    ELSE IF f = file_de_a THEN ScanContents
    ELSE {"absent", "hello"}

entry_of(choice) ==
    CASE choice = "absent" -> no_file
      [] choice = "unreadable" -> unreadable_entry("hello")
      [] choice = "unstatable" -> unstatable_entry
      [] OTHER -> file_entry(choice)
\* A root that does not exist.
dir_missing == <<"/", "k">>
ScanRoots == {dir_d, dir_d_slash, dir_de, dir_dx, dir_dk, dir_t, dir_tx, dir_missing}

InitScan ==
    /\ InitStore
    /\ fs \in {[f \in FileSet |-> entry_of(choice[f])] :
                 choice \in {c \in [FileSet -> ScanContents \cup ScanErrors] :
                                \A f \in FileSet : c[f] \in file_choices(f)}}
    /\ dirs = DirSet
    /\ op = NoCall

\* GuardianScanner.scan_directory(directory)
ScanDirectory(directory) ==
    /\ op.name = "none"
    /\ op' = Call("scan_directory", directory, NoneInt, <<>>,
                  scan_directory(directory), <<>>, <<>>, TRUE)
    /\ UNCHANGED <<fs, dirs, clock, baselines, files, change_history, txn, reader, calls>>

\* Guardian.create_baseline(path) as the first call on the tree.
ScanCreateBaseline(path) ==
    /\ op.name = "none"
    /\ GuardianCreateBaseline(path, None)

NextScan ==
    \/ \E directory \in ScanRoots : ScanDirectory(directory)
    \/ \E path \in ScanRoots : ScanCreateBaseline(path)

SpecScan == InitScan /\ [][NextScan]_vars

\* C8: a file whose path matches a configured exclude pattern or begins
\* with a configured excluded path prefix never appears in the result of
\* scan_directory, whatever root is scanned.
C8_NoExcludedFileInScan ==
    op.name = "scan_directory" =>
        \A i \in 1..Len(op.scan) : ~excluded_by_rule(op.scan[i].path)

\* C8's case: /d is scanned while it holds /d/a and the excluded /d/a.k,
\* and the scan returns something.
C8_Witness ==
    /\ op.name = "scan_directory"
    /\ op.path = dir_d
    /\ fs[file_d_a].exists
    /\ fs[file_d_ak].exists
    /\ fs[file_d_ak].st_size <= max_file_size
    /\ op.scan # <<>>

\* Directory d is file_path's directory or one above it.
is_above(d, file_path) ==
    /\ Len(d) < Len(file_path)
    /\ has_string_prefix(file_path, d)
    /\ file_path[Len(d) + 1] = Sep

\* The directories of the walk from root that lie on the way to file_path,
\* the root included.
walk_dirs_to(root, file_path) ==
    {d \in DirSet : is_above(d, file_path) /\ (d = root \/ is_above(root, d))}

\* C9: a directory that matches an exclusion rule is never descended into:
\* no file beneath such a directory appears in the scan result, for every
\* directory of the walk including the root passed to scan_directory.
C9_NoFileBeneathExcludedDir ==
    op.name = "scan_directory" =>
        \A i \in 1..Len(op.scan) :
            \A d \in walk_dirs_to(abspath(op.path), op.scan[i].path) :
                ~excluded_by_rule(d)

(***************************************************************************)
(* create_baseline statement by statement, with a concurrent reader on a  *)
(* connection of its own: SpecTxn.  The rows a connection has inserted and *)
(* not committed are in txn; baselines and files hold the committed rows.  *)
(***************************************************************************)
\* A variant of read_committed that shows the rows of an open transaction.
read_uncommitted(table, pending) == table \o pending

\* What a SELECT on another connection returns rows from, while `pending`
\* are the rows of an open transaction: with sqlite3.connect(...) as conn
\* opens a transaction at the first INSERT and the rows reach the other
\* connections at conn.commit().
read_committed(table, pending) == table

TxnPaths == {dir_d, dir_de}

\* cursor.execute('INSERT INTO baselines ...'); baseline_id = cursor.lastrowid
TxnBegin(name, path, infos) ==
    LET row == baseline_row(baselines, name, path, infos)
    IN /\ txn.pc = "idle"
       /\ Len(baselines) < MaxBaselines
       /\ txn' = [pc |-> "inserting", id |-> row.id, path |-> path,
                  baseline |-> <<row>>, rows |-> <<>>, todo |-> infos]
       /\ UNCHANGED <<fs, dirs, clock, baselines, files, change_history, reader, op, calls>>

\* One turn of the loop: cursor.execute('INSERT INTO files ...')
TxnInsertFile ==
    /\ txn.pc = "inserting"
    /\ txn.todo # <<>>
    /\ txn' = [txn EXCEPT !.rows = Append(@, file_row(txn.id, Head(txn.todo))),
                          !.todo = Tail(@)]
    /\ UNCHANGED <<fs, dirs, clock, baselines, files, change_history, reader, op, calls>>

\* conn.commit(); return baseline_id
TxnCommit ==
    /\ txn.pc = "inserting"
    /\ txn.todo = <<>>
    /\ baselines' = baselines \o txn.baseline
    /\ files' = files \o txn.rows
    /\ txn' = NoTxn
    /\ op' = Call("db_create_baseline", txn.path, txn.id, <<>>, <<>>, <<>>, <<>>, TRUE)
    /\ UNCHANGED <<fs, dirs, clock, change_history, reader, calls>>

\* A statement raises or the process ends before conn.commit(): the context
\* manager, or SQLite at the next open, rolls the transaction back.
TxnFail ==
    /\ txn.pc = "inserting"
    /\ txn' = NoTxn
    /\ op' = Call("db_create_baseline_failed", txn.path, txn.id, <<>>, <<>>,
                  <<>>, <<>>, FALSE)
    /\ UNCHANGED <<fs, dirs, clock, baselines, files, change_history, reader, calls>>

\* The reader's get_latest_baseline(path)
ReaderGetLatest(path) ==
    /\ reader.pc = "idle"
    /\ \E b \in latest_candidates(read_committed(baselines, txn.baseline), path) :
           reader' = [pc |-> "have_id", path |-> path, id |-> b, seen |-> <<>>]
    /\ UNCHANGED <<fs, dirs, clock, baselines, files, change_history, txn, op, calls>>

\* The reader's get_baseline_files(baseline_id)
ReaderGetFiles ==
    /\ reader.pc = "have_id"
    /\ reader' = [reader EXCEPT
                    !.pc = "done",
                    !.seen = get_baseline_files_in(read_committed(files, txn.rows),
                                                   reader.id)]
    /\ UNCHANGED <<fs, dirs, clock, baselines, files, change_history, txn, op, calls>>

\* The reader starts over.
ReaderReset ==
    /\ reader.pc = "done"
    /\ reader' = NoReader
    /\ UNCHANGED <<fs, dirs, clock, baselines, files, change_history, txn, op, calls>>

NextTxn ==
    \/ \E path \in TxnPaths, infos \in StoreInfos : TxnBegin("weekly", path, infos)
    \/ TxnInsertFile
    \/ TxnCommit
    \/ TxnFail
    \/ \E path \in TxnPaths : ReaderGetLatest(path)
    \/ ReaderGetFiles
    \/ ReaderReset

SpecTxn == Init /\ [][NextTxn]_vars

\* The number of rows of table files that belong to baseline b.
rows_of(table, b) == Len(SelectSeq(table, LAMBDA r : r.baseline_id = b))

\* C7: create_baseline is all-or-nothing.  At every point of every
\* interleaving, what another connection can read holds, for each baseline
\* row, all file_count file rows of it and no file row without a baseline
\* row; a reader that obtained baseline id b from get_latest_baseline got
\* every file record of b from get_baseline_files; and after a
\* create_baseline that failed part-way neither its baseline row nor any of
\* its file rows can be read.
C7_AllOrNothing ==
    LET seen_baselines == read_committed(baselines, txn.baseline)
        seen_files     == read_committed(files, txn.rows)
    IN /\ \A b \in 1..Len(seen_baselines) :
             rows_of(seen_files, seen_baselines[b].id) = seen_baselines[b].file_count
       /\ \A i \in 1..Len(seen_files) :
             \E b \in 1..Len(seen_baselines) :
                 seen_baselines[b].id = seen_files[i].baseline_id
       /\ reader.pc = "done" =>
             /\ reader.id \in 1..Len(baselines)
             /\ Len(reader.seen) = baselines[reader.id].file_count
       /\ (op.name = "db_create_baseline_failed" /\ txn.pc = "idle") =>
             /\ \A b \in 1..Len(seen_baselines) : seen_baselines[b].id # op.id
             /\ rows_of(seen_files, op.id) = 0

\* C7's case: a reader has read both file records of a baseline while a
\* create_baseline has inserted one of its two files.
C7_Witness ==
    /\ reader.pc = "done"
    /\ Len(reader.seen) = 2
    /\ txn.pc = "inserting"
    /\ Len(txn.rows) = 1
    /\ Len(txn.todo) = 1
    /\ op.name = "db_create_baseline"

(***************************************************************************)
(* The size gate and the per-file errors of scan_directory, under SpecScan.*)
(***************************************************************************)
scan_paths(infos) == {infos[i].path : i \in 1..Len(infos)}

\* The walk from root comes to file_path and does not exclude it: the file
\* is beneath root, is under no exclusion rule, and no directory between
\* root and the file is under one.
walk_reaches(root, file_path) ==
    /\ is_above(root, file_path)
    /\ ~excluded_by_rule(file_path)
    /\ \A d \in DirSet :
          (is_above(d, file_path) /\ is_above(root, d)) => ~excluded_by_rule(d)

\* C11: size gate.  A file the walk does not exclude and whose size equals
\* max_file_size is in the scan result, and a file whose size is
\* max_file_size + 1 or more is not.
C11_SizeGate ==
    op.name = "scan_directory" =>
        \A f \in FileSet :
            (fs[f].exists /\ fs[f].statable) =>
                /\ (fs[f].st_size = max_file_size /\ walk_reaches(abspath(op.path), f))
                      => f \in scan_paths(op.scan)
                /\ fs[f].st_size >= max_file_size + 1 => f \notin scan_paths(op.scan)

\* C11's case: /d is scanned while /d/a has exactly max_file_size bytes and
\* /d/b one more.
C11_Witness ==
    /\ op.name = "scan_directory"
    /\ op.path = dir_d
    /\ fs[file_d_a].statable /\ fs[file_d_a].st_size = max_file_size
    /\ fs[file_d_b].statable /\ fs[file_d_b].st_size = max_file_size + 1
    /\ file_d_a \in scan_paths(op.scan)
    /\ file_d_b \notin scan_paths(op.scan)

\* C12: a file the scanner skips because its size exceeds max_file_size is
\* never reported as a change by check_integrity, also when the baseline
\* holds it because it was within the limit when the baseline was created.
C12_OversizedNeverReported ==
    op.name = "check_integrity" =>
        \A i \in 1..Len(op.changes) :
            ~(/\ fs[op.changes[i].file_path].exists
              /\ fs[op.changes[i].file_path].statable
              /\ fs[op.changes[i].file_path].st_size > max_file_size)

\* The files scan_directory(root) has to return: those the walk reaches and
\* does not exclude, that os.stat succeeds on and that pass the size gate.
eligible_files(root) ==
    {f \in FileSet : /\ fs[f].exists
                     /\ fs[f].statable
                     /\ fs[f].st_size <= max_file_size
                     /\ walk_reaches(root, f)}

info_at(infos, file_path) ==
    infos[CHOOSE i \in 1..Len(infos) : infos[i].path = file_path]

\* C13: when hashing a file fails, the scan is not aborted: the file still
\* gets a FileInfo in the scan result, with its stat data and with
\* empty-string digests, and all other files of the walk are still scanned.
C13_HashFailureKeepsFile ==
    op.name = "scan_directory" =>
        /\ \A f \in eligible_files(abspath(op.path)) :
              ~fs[f].readable =>
                  /\ f \in scan_paths(op.scan)
                  /\ info_at(op.scan, f).size = fs[f].st_size
                  /\ info_at(op.scan, f).modified_time = fs[f].st_mtime
                  /\ info_at(op.scan, f).inode = fs[f].st_ino
                  /\ info_at(op.scan, f).hash_sha256 = ""
                  /\ info_at(op.scan, f).hash_sha1 = ""
                  /\ info_at(op.scan, f).hash_md5 = ""
        /\ \A g \in eligible_files(abspath(op.path)) :
              fs[g].readable =>
                  /\ g \in scan_paths(op.scan)
                  /\ info_at(op.scan, g).hash_sha256 # ""

\* C13's case: /d is scanned while /d/a cannot be read and /d/b can.
C13_Witness ==
    /\ op.name = "scan_directory"
    /\ op.path = dir_d
    /\ fs[file_d_a].statable /\ ~fs[file_d_a].readable
    /\ fs[file_d_b].readable /\ fs[file_d_b].st_size <= max_file_size
    /\ {file_d_a, file_d_b} \subseteq scan_paths(op.scan)

\* C14, as stated: a file with a per-file I/O error (its stat fails or it is
\* unreadable) is omitted from the result of scan_directory.
C14_ErrorFilesOmitted ==
    op.name = "scan_directory" =>
        \A f \in FileSet :
            (fs[f].exists /\ (~fs[f].statable \/ ~fs[f].readable))
                => f \notin scan_paths(op.scan)

\* C14, amended: a file whose stat fails is omitted from the result, a file
\* that cannot be read is kept with empty-string digests, and in both cases
\* the walk continues: the result holds exactly the files the walk reaches,
\* os.stat succeeds on and the size gate lets through.
C14_StatFailureOmitted ==
    op.name = "scan_directory" =>
        /\ scan_paths(op.scan) = eligible_files(abspath(op.path))
        /\ \A f \in FileSet : (fs[f].exists /\ ~fs[f].statable) => f \notin scan_paths(op.scan)
        /\ \A i \in 1..Len(op.scan) :
              ~fs[op.scan[i].path].readable => op.scan[i].hash_sha256 = ""

\* C14's case: /d is scanned while os.stat fails on /d/a and /d/b is a good
\* file, which the scan still returns.
C14_Witness ==
    /\ op.name = "scan_directory"
    /\ op.path = dir_d
    /\ fs[file_d_a].exists /\ ~fs[file_d_a].statable
    /\ fs[file_d_b].readable
    /\ file_d_b \in scan_paths(op.scan)
    /\ file_d_a \notin scan_paths(op.scan)

all_or_none(sha256, sha1, md5) ==
    \/ sha256 # "" /\ sha1 # "" /\ md5 # ""
    \/ sha256 = "" /\ sha1 = "" /\ md5 = ""

\* C15: every FileInfo produced by scan_directory, and every file record of
\* a baseline created from a scan, has its three digests all non-empty or
\* all equal to the empty string.
C15_DigestsAllOrNone ==
    /\ \A i \in 1..Len(op.scan) :
          all_or_none(op.scan[i].hash_sha256, op.scan[i].hash_sha1, op.scan[i].hash_md5)
    /\ \A i \in 1..Len(files) :
          all_or_none(files[i].hash_sha256, files[i].hash_sha1, files[i].hash_md5)

\* C15's case: a baseline created from a scan holds a record with empty
\* digests and a record with all three.
C15_Witness ==
    /\ op.name = "create_baseline"
    /\ \E i, j \in 1..Len(files) :
          /\ files[i].hash_sha256 = "" /\ files[i].hash_md5 = ""
          /\ files[j].hash_sha256 # "" /\ files[j].hash_md5 # ""

\* C16: for a path present in both the baseline and the current scan,
\* check_integrity emits a MODIFIED record if and only if the two SHA-256
\* digests differ; differences in SHA-1, MD5, size, modification time,
\* permissions or inode alone never produce a record, and equal SHA-256
\* digests never produce one.
C16_ModifiedIffSha256Differs ==
    op.name = "compare_files" =>
        \A i \in 1..Len(op.base), j \in 1..Len(op.cur) :
            op.base[i].key = op.cur[j].key =>
                /\ (\E r \in 1..Len(op.changes) :
                       /\ op.changes[r].file_path = op.base[i].key
                       /\ op.changes[r].change_type = "MODIFIED")
                   <=> op.base[i].value.hash_sha256 # op.cur[j].value.hash_sha256
                /\ op.base[i].value.hash_sha256 = op.cur[j].value.hash_sha256
                      => \A r \in 1..Len(op.changes) :
                             op.changes[r].file_path # op.base[i].key

\* C16's case: /d/a has the same SHA-256 on both sides and another SHA-1,
\* MD5, size, modification time, permissions and inode, and gets no record,
\* while /d/b gets a MODIFIED record.
C16_Witness ==
    /\ op.name = "compare_files"
    /\ op.base # <<>> /\ op.cur # <<>>
    /\ op.base[1].key = file_d_a /\ op.cur[1].key = file_d_a
    /\ op.base[1].value.hash_sha256 = op.cur[1].value.hash_sha256
    /\ op.base[1].value.hash_sha1 # op.cur[1].value.hash_sha1
    /\ op.base[1].value.hash_md5 # op.cur[1].value.hash_md5
    /\ op.base[1].value.size # op.cur[1].value.size
    /\ op.base[1].value.modified_time # op.cur[1].value.modified_time
    /\ op.base[1].value.permissions # op.cur[1].value.permissions
    /\ op.base[1].value.inode # op.cur[1].value.inode
    /\ \A r \in 1..Len(op.changes) : op.changes[r].file_path # file_d_a
    /\ \E r \in 1..Len(op.changes) :
          op.changes[r].file_path = file_d_b /\ op.changes[r].change_type = "MODIFIED"

\* C17: get_latest_baseline(path) returns none exactly when no baseline was
\* created with exactly that path string, and otherwise the id of a
\* baseline whose stored path equals the given string; never a baseline
\* created for a different path string.
C17_LatestOfExactPath ==
    op.name = "get_latest_baseline" =>
        /\ op.id = NoneInt <=> ~(\E i \in 1..Len(baselines) : baselines[i].path = op.path)
        /\ op.id # NoneInt =>
              /\ op.id \in 1..Len(baselines)
              /\ baselines[op.id].path = op.path

\* C17's case: a baseline of "/d/e" and then one of "/d" are stored, and
\* get_latest_baseline("/d/e") returns an id.
C17_Witness ==
    /\ op.name = "get_latest_baseline"
    /\ Len(baselines) = 2
    /\ baselines[1].path = dir_de /\ baselines[2].path = dir_d
    /\ op.path = dir_de
    /\ op.id = 1

\* C17's other case: a baseline of "/d" is stored and
\* get_latest_baseline("/d/") returns none.
C17_WitnessNone ==
    /\ op.name = "get_latest_baseline"
    /\ \E i \in 1..Len(baselines) : baselines[i].path = dir_d
    /\ op.path = dir_d_slash
    /\ op.id = NoneInt

(***************************************************************************)
(* GuardianDatabase.create_baseline on any name, path and list: SpecCreate.*)
(***************************************************************************)
StoreNames == {"weekly", "daily"}
StoreInfosAll == StoreInfos \cup { <<>> }

\* GuardianDatabase.get_baseline_files(baseline_id)
DbGetBaselineFiles(baseline_id) ==
    /\ op' = Call("get_baseline_files", <<>>, baseline_id, <<>>, <<>>,
                  get_baseline_files(baseline_id), <<>>, TRUE)
    /\ UNCHANGED <<fs, dirs, clock, baselines, files, change_history, txn, reader, calls>>

NextCreate ==
    \/ Tick
    \/ \E name \in StoreNames, path \in StorePaths, infos \in StoreInfosAll :
           DbCreateBaseline(name, path, infos)
    \/ \E b \in 1..Len(baselines) : DbGetBaselineFiles(b)

SpecCreate == Init /\ [][NextCreate]_vars

\* The sum of the sizes of the first n records of a list.
RECURSIVE size_sum(_, _)
size_sum(infos, n) == IF n = 0 THEN 0 ELSE size_sum(infos, n - 1) + infos[n].size

\* C18: for every list of file records passed to
\* GuardianDatabase.create_baseline, the stored baseline has file_count
\* equal to the length of the list and total_size equal to the sum of the
\* records' sizes, together with the given name and path.
C18_BaselineAggregates ==
    [][\A name \in StoreNames, path \in StorePaths, infos \in StoreInfosAll :
          DbCreateBaseline(name, path, infos) =>
              /\ Len(baselines') = Len(baselines) + 1
              /\ baselines'[Len(baselines')].id = op'.id
              /\ baselines'[Len(baselines')].name = name
              /\ baselines'[Len(baselines')].path = path
              /\ baselines'[Len(baselines')].file_count = Len(infos)
              /\ baselines'[Len(baselines')].total_size = size_sum(infos, Len(infos))]_vars

\* C18's case: a list of two records of 3 and 5 bytes was stored under the
\* name "daily", after an empty list.
C18_Witness ==
    /\ op.name = "db_create_baseline"
    /\ Len(op.scan) = 2
    /\ Len(baselines) = 2
    /\ baselines[1].file_count = 0 /\ baselines[1].total_size = 0
    /\ baselines[2].name = "daily"
    /\ baselines[2].file_count = 2
    /\ baselines[2].total_size = 8

\* A mapping holds exactly the records of a list, each under its path.
maps_records(d, infos) ==
    /\ {d[i].key : i \in 1..Len(d)} = {infos[i].path : i \in 1..Len(infos)}
    /\ Len(d) = Len(infos)
    /\ \A i \in 1..Len(d) : \E j \in 1..Len(infos) :
          d[i].key = infos[j].path /\ d[i].value = infos[j]

\* C19: round trip of the store.  For a list of file records with pairwise
\* distinct paths, get_baseline_files(create_baseline(name, path, files)) is
\* a mapping whose key set is exactly the set of the records' paths and that
\* maps each path to a record equal to the stored one in every field; it
\* holds no record of another baseline, right after the baseline was
\* created and at every later call.
C19_StoreRoundTrip ==
    [][/\ \A name \in StoreNames, path \in StorePaths, infos \in StoreInfosAll :
             DbCreateBaseline(name, path, infos) =>
                 maps_records(get_baseline_files_in(files', op'.id), infos)
       /\ \A b \in 1..Len(baselines) :
             DbGetBaselineFiles(b) =>
                 /\ Len(op'.base) = baselines[b].file_count
                 /\ \A i \in 1..Len(op'.base) : \E r \in 1..Len(files) :
                       /\ files[r].baseline_id = b
                       /\ files[r].file_path = op'.base[i].key
                       /\ files[r].hash_sha256 = op'.base[i].value.hash_sha256
                       /\ files[r].file_size = op'.base[i].value.size]_vars

\* C19's case: get_baseline_files returned the one record of the second
\* baseline while the first baseline holds two records, one of the same path.
C19_Witness ==
    /\ op.name = "get_baseline_files"
    /\ Len(baselines) = 2
    /\ baselines[1].file_count = 2
    /\ op.id = 2
    /\ Len(op.base) = 1
    /\ op.base[1].key = file_d_a
    /\ op.base[1].value = info_of(file_d_a, "hello")

\* C20: scanning a root that does not exist returns an empty result together
\* with a PathNotFound signal, so that the caller can tell a missing root
\* from an existing directory without eligible files: what scan_directory
\* returns for the missing root is empty and differs from what it returns
\* for every existing directory that holds no eligible file.
C20_MissingRootSignalled ==
    (op.name = "scan_directory" /\ ~path_exists(abspath(op.path))) =>
        /\ op.scan = <<>>
        /\ \A d \in dirs :
              eligible_files(d) = {} => scan_directory(d) # op.scan

\* C21: Guardian.create_baseline returns none and persists nothing (no
\* baseline row, no file row) when the scan of the path yields no files,
\* because the path is missing or has no eligible file; otherwise it
\* persists one new baseline holding exactly the scanned files and returns
\* its id.
C21_CreateBaselineOrNone ==
    [][\A path \in ScanRoots :
          ScanCreateBaseline(path) =>
              IF eligible_files(abspath(path)) = {}
              THEN /\ op'.id = NoneInt
                   /\ baselines' = baselines
                   /\ files' = files
              ELSE /\ Len(baselines') = Len(baselines) + 1
                   /\ SubSeq(baselines', 1, Len(baselines)) = baselines
                   /\ op'.id = baselines'[Len(baselines')].id
                   /\ baselines'[Len(baselines')].path = path
                   /\ SubSeq(files', 1, Len(files)) = files
                   /\ Len(files') = Len(files) + Cardinality(eligible_files(abspath(path)))
                   /\ \A i \in (Len(files) + 1)..Len(files') :
                         files'[i].baseline_id = op'.id
                   /\ {files'[i].file_path : i \in (Len(files) + 1)..Len(files')}
                         = eligible_files(abspath(path))]_vars

\* C21's case: create_baseline of /d, which holds only an oversized file,
\* returned none and the store is empty.
C21_Witness ==
    /\ op.name = "create_baseline"
    /\ op.path = dir_d
    /\ fs[file_d_a].statable /\ fs[file_d_a].st_size > max_file_size
    /\ op.id = NoneInt
    /\ baselines = <<>>
    /\ files = <<>>

\* C21's other case: create_baseline of /d stored a baseline of two files.
C21_WitnessStored ==
    /\ op.name = "create_baseline"
    /\ op.path = dir_d
    /\ op.id = 1
    /\ Len(baselines) = 1
    /\ Len(files) = 2

\* C22: check_integrity(path) for a path that has no baseline returns the
\* empty sequence and leaves the store unchanged: it creates no baseline
\* and appends no change-history row.
C22_NoBaselineNoEffect ==
    [][\A path \in MonitorPaths :
          (/\ GuardianCheckIntegrity(path)
           /\ \A i \in 1..Len(baselines) : baselines[i].path # path)
          => /\ op'.changes = <<>>
             /\ baselines' = baselines
             /\ files' = files
             /\ change_history' = change_history]_vars

\* C22's case: check_integrity of /d was called while /d held a file and no
\* baseline of /d existed.
C22_Witness ==
    /\ op.name = "check_integrity"
    /\ op.path = dir_d
    /\ op.id = NoneInt
    /\ fs[file_d_a].exists
    /\ \A i \in 1..Len(baselines) : baselines[i].path # dir_d

\* C23: the scan result is exhaustive and duplicate-free: every regular
\* file under the root that is not excluded, not oversized and readable
\* appears in the result of scan_directory exactly once, and no two records
\* of one scan have the same path.
C23_ExhaustiveNoDuplicates ==
    op.name = "scan_directory" =>
        /\ \A f \in eligible_files(abspath(op.path)) :
              fs[f].readable =>
                  Cardinality({i \in 1..Len(op.scan) : op.scan[i].path = f}) = 1
        /\ \A i, j \in 1..Len(op.scan) :
              i # j => op.scan[i].path # op.scan[j].path

\* C23's case: /d is scanned while /d/a, /d/b and /d/e/a are good files and
\* the excluded /d/a.k and /d/x/a exist; the result has the three records.
C23_Witness ==
    /\ op.name = "scan_directory"
    /\ op.path = dir_d
    /\ fs[file_d_a].readable /\ fs[file_d_a].st_size <= max_file_size
    /\ fs[file_d_b].readable /\ fs[file_d_b].st_size <= max_file_size
    /\ fs[file_de_a].readable /\ fs[file_de_a].st_size <= max_file_size
    /\ fs[file_d_ak].exists
    /\ fs[file_dx_a].exists
    /\ Len(op.scan) = 3
    /\ scan_paths(op.scan) = {file_d_a, file_d_b, file_de_a}

(***************************************************************************)
(* Two check_integrity calls that run at the same time, each on a          *)
(* connection of its own, statement by statement: SpecConc.                *)
(***************************************************************************)
ConcPaths == <<dir_d, dir_de>>
ConcProcs == 1..Len(ConcPaths)
ConcContents == {"absent", "hello", "new"}
ConcFiles == {file_d_a, file_d_b, file_de_a}

\* The records of the baseline of each path: /d/a and /d/e/a, written with
\* "hello" when the baselines were created.
conc_infos(path) ==
    IF path = dir_d
    THEN <<info_of(file_d_a, "hello"), info_of(file_de_a, "hello")>>
    ELSE <<info_of(file_de_a, "hello")>>

\* A check_integrity(path) call that has not run its first statement.
NewCall(path) ==
    [pc |-> "start", path |-> path, id |-> NoneInt, base |-> <<>>,
     changes |-> <<>>, rows |-> <<>>, todo |-> <<>>]

InitConc ==
    /\ clock = 0
    /\ baselines =
          LET first == baseline_row(<<>>, "weekly", ConcPaths[1], conc_infos(ConcPaths[1]))
          IN <<first,
               baseline_row(<<first>>, "weekly", ConcPaths[2], conc_infos(ConcPaths[2]))>>
    /\ files = file_rows(1, conc_infos(ConcPaths[1])) \o file_rows(2, conc_infos(ConcPaths[2]))
    /\ change_history = <<>>
    /\ txn = NoTxn
    /\ reader = NoReader
    /\ op = NoCall
    /\ dirs = DirSet
    /\ fs \in {[f \in FileSet |-> IF f \in ConcFiles THEN entry_of(choice[f]) ELSE no_file] :
                 choice \in [ConcFiles -> ConcContents]}
    /\ calls = [p \in ConcProcs |-> NewCall(ConcPaths[p])]

\* baseline_id = self.db.get_latest_baseline(path); return [] when None
ConcGetLatest(p) ==
    /\ calls[p].pc = "start"
    /\ IF latest_candidates(baselines, calls[p].path) = {}
       THEN calls' = [calls EXCEPT ![p].pc = "done"]
       ELSE \E b \in latest_candidates(baselines, calls[p].path) :
                calls' = [calls EXCEPT ![p].pc = "have_id", ![p].id = b]
    /\ UNCHANGED <<fs, dirs, clock, baselines, files, change_history, txn, reader, op>>

\* baseline_files = self.db.get_baseline_files(baseline_id)
ConcGetFiles(p) ==
    /\ calls[p].pc = "have_id"
    /\ calls' = [calls EXCEPT ![p].pc = "have_base",
                              ![p].base = get_baseline_files(calls[p].id)]
    /\ UNCHANGED <<fs, dirs, clock, baselines, files, change_history, txn, reader, op>>

\* The scan and the two loops, on the call's own lists; a call without
\* changes is done.
ConcScanCompare(p) ==
    /\ calls[p].pc = "have_base"
    /\ LET changes == compare_files(calls[p].base,
                                    dict_by_path(<<>>, scan_directory(calls[p].path)))
       IN calls' = [calls EXCEPT ![p].changes = changes,
                                 ![p].pc = IF changes = <<>> THEN "done" ELSE "compared"]
    /\ UNCHANGED <<fs, dirs, clock, baselines, files, change_history, txn, reader, op>>

\* No other connection holds the write lock of the database file.
write_lock_free(p) == \A q \in ConcProcs : q # p => calls[q].pc # "inserting"

\* A variant of on_busy for a connection opened with timeout 0: the call
\* raises "database is locked".
on_busy_raise(call) == [call EXCEPT !.pc = "failed"]

\* What the first INSERT of record_changes does while another connection
\* holds the write lock: sqlite3.connect(db_file) has the default timeout,
\* with which SQLite waits for the lock and tries again.
on_busy(call) == call

\* record_changes: the first INSERT takes the write lock ...
ConcRecordBegin(p) ==
    /\ calls[p].pc = "compared"
    /\ calls' = IF write_lock_free(p)
                THEN [calls EXCEPT ![p].pc = "inserting", ![p].todo = calls[p].changes]
                ELSE [calls EXCEPT ![p] = on_busy(calls[p])]
    /\ UNCHANGED <<fs, dirs, clock, baselines, files, change_history, txn, reader, op>>

\* ... each INSERT INTO change_history adds an uncommitted row ...
ConcRecordInsert(p) ==
    /\ calls[p].pc = "inserting"
    /\ calls[p].todo # <<>>
    /\ calls' = [calls EXCEPT
                   ![p].rows = Append(@, history_row(calls[p].id, Head(calls[p].todo))),
                   ![p].todo = Tail(@)]
    /\ UNCHANGED <<fs, dirs, clock, baselines, files, change_history, txn, reader, op>>

\* ... and conn.commit() makes the rows part of the table and frees the lock;
\* check_integrity returns changes.
ConcRecordCommit(p) ==
    /\ calls[p].pc = "inserting"
    /\ calls[p].todo = <<>>
    /\ change_history' = change_history \o calls[p].rows
    /\ calls' = [calls EXCEPT ![p].pc = "done", ![p].rows = <<>>]
    /\ UNCHANGED <<fs, dirs, clock, baselines, files, txn, reader, op>>

NextConc ==
    \E p \in ConcProcs :
        \/ ConcGetLatest(p)
        \/ ConcGetFiles(p)
        \/ ConcScanCompare(p)
        \/ ConcRecordBegin(p)
        \/ ConcRecordInsert(p)
        \/ ConcRecordCommit(p)

SpecConc == InitConc /\ [][NextConc]_vars

\* What check_integrity(path) returns when it runs alone on the store and
\* the tree.
alone_changes(path) ==
    LET b == CHOOSE i \in 1..Len(baselines) : baselines[i].path = path
    IN compare_files(get_baseline_files(b), dict_by_path(<<>>, scan_directory(path)))

alone_rows(path) ==
    LET b == CHOOSE i \in 1..Len(baselines) : baselines[i].path = path
    IN {history_row(b, alone_changes(path)[i]) : i \in 1..Len(alone_changes(path))}

C25_RecordFields ==
    op.name = "compare_files" =>
        \A r \in 1..Len(op.changes) :
            LET change == op.changes[r]
            IN /\ change.change_type = "REMOVED" =>
                     /\ \E i \in 1..Len(op.base) :
                           /\ op.base[i].key = change.file_path
                           /\ op.base[i].value.hash_sha256 = change.old_hash
                     /\ change.new_hash = None
                     /\ change.new_size = NoneInt
               /\ change.change_type = "ADDED" =>
                     /\ \E j \in 1..Len(op.cur) :
                           /\ op.cur[j].key = change.file_path
                           /\ op.cur[j].value.hash_sha256 = change.new_hash
                           /\ op.cur[j].value.size = change.new_size
                     /\ change.old_hash = None
                     /\ change.old_size = NoneInt
               /\ change.change_type = "MODIFIED" =>
                     /\ change.old_hash # None /\ change.new_hash # None
                     /\ change.old_size # NoneInt /\ change.new_size # NoneInt
                     /\ \E i \in 1..Len(op.base), j \in 1..Len(op.cur) :
                           /\ op.base[i].key = change.file_path
                           /\ op.cur[j].key = change.file_path
                           /\ op.base[i].value.hash_sha256 = change.old_hash
                           /\ op.cur[j].value.hash_sha256 = change.new_hash
                           /\ op.base[i].value.size = change.old_size
                           /\ op.cur[j].value.size = change.new_size

\* C25's case: one diff returned a REMOVED, an ADDED and a MODIFIED record.
C25_Witness ==
    /\ op.name = "compare_files"
    /\ Len(op.changes) = 3
    /\ count_of(op.changes, "REMOVED") = 1
    /\ count_of(op.changes, "ADDED") = 1
    /\ count_of(op.changes, "MODIFIED") = 1

\* The rows a step appended to the change history.
appended_rows == SubSeq(change_history', Len(change_history) + 1, Len(change_history'))

\* The rows appended are the records returned, one row per ChangeReport in
\* the order returned, all tagged with baseline_id.
rows_match_changes(rows, changes, baseline_id) ==
    /\ Len(rows) = Len(changes)
    /\ \A i \in 1..Len(rows) :
          /\ rows[i].baseline_id = baseline_id
          /\ rows[i].change_type = changes[i].change_type
          /\ rows[i].file_path = changes[i].file_path
          /\ rows[i].old_hash = changes[i].old_hash
          /\ rows[i].new_hash = changes[i].new_hash
          /\ rows[i].old_size = changes[i].old_size
          /\ rows[i].new_size = changes[i].new_size

\* C26: each check_integrity call that resolves a baseline appends to the
\* change history exactly the records it returns, one row per returned
\* ChangeReport, all tagged with the id of the latest baseline for the path
\* at the time of the call; so every change-history row references a
\* baseline that exists and whose path is the checked path.
C26_HistoryIsWhatWasReturned ==
    [][\A path \in MonitorPaths :
          (GuardianCheckIntegrity(path) /\ ids_of_path(baselines, path) # {}) =>
              /\ SubSeq(change_history', 1, Len(change_history)) = change_history
              /\ rows_match_changes(appended_rows, op'.changes, newest_baseline(path))
              /\ \A i \in 1..Len(appended_rows) :
                    /\ appended_rows[i].baseline_id \in 1..Len(baselines)
                    /\ baselines[appended_rows[i].baseline_id].path = path]_vars

\* C26 with "the baseline the call resolved" in the place of "the latest
\* baseline": the part of the claim that does not depend on which baseline
\* get_latest_baseline picks.
C26_ResolvedBaselineTagged ==
    [][\A path \in MonitorPaths :
          (GuardianCheckIntegrity(path) /\ ids_of_path(baselines, path) # {}) =>
              /\ SubSeq(change_history', 1, Len(change_history)) = change_history
              /\ rows_match_changes(appended_rows, op'.changes, op'.id)
              /\ \A i \in 1..Len(appended_rows) :
                    /\ appended_rows[i].baseline_id \in 1..Len(baselines)
                    /\ baselines[appended_rows[i].baseline_id].path = path]_vars

(***************************************************************************)
(* _parse_size on any size string: SpecParse.                              *)
(***************************************************************************)
Digits == {"1", "2"}
digit_value(c) == IF c = "1" THEN 1 ELSE 2

\* str.upper() and str.strip() on the characters of SizeAlphabet.
upper_char(c) == IF c = "k" THEN "K" ELSE c
str_upper(str) == [i \in 1..Len(str) |-> upper_char(str[i])]

RECURSIVE str_lstrip(_)
str_lstrip(str) ==
    IF str # <<>> /\ Head(str) = " " THEN str_lstrip(Tail(str)) ELSE str

RECURSIVE str_rstrip(_)
str_rstrip(str) ==
    IF str # <<>> /\ str[Len(str)] = " "
    THEN str_rstrip(SubSeq(str, 1, Len(str) - 1))
    ELSE str

str_strip(str) == str_rstrip(str_lstrip(str))

endswith(str, suffix) ==
    /\ Len(suffix) <= Len(str)
    /\ SubSeq(str, Len(str) - Len(suffix) + 1, Len(str)) = suffix

is_digits(str) == str # <<>> /\ \A i \in 1..Len(str) : str[i] \in Digits

RECURSIVE int_of_digits(_)
int_of_digits(str) ==
    IF str = <<>> THEN 0
    ELSE 10 * int_of_digits(SubSeq(str, 1, Len(str) - 1)) + digit_value(str[Len(str)])

\* float(number): surrounding white space is ignored, a digit string gives
\* its value, "INF" gives infinity, every other string of SizeAlphabet
\* raises ValueError.
float_of(number) ==
    LET text == str_strip(number)
    IN IF is_digits(text) THEN [kind |-> "finite", value |-> int_of_digits(text)]
       ELSE IF text = <<"I", "N", "F">> THEN [kind |-> "inf", value |-> 0]
       ELSE [kind |-> "ValueError", value |-> 0]

\* What a call of _parse_size ends with: the return of n * 1024^unit bytes
\* (kept as the pair, a number of gigabytes being beyond the integers of
\* the checker), or an exception that leaves the method.
bytes(n, unit) == [kind |-> "return", n |-> n, unit |-> unit, exc |-> ""]
raises(exc) == [kind |-> "raise", n |-> 0, unit |-> 0, exc |-> exc]

\* 100 * 1024 * 1024
default_size == bytes(100, 2)

\* multipliers = [('GB', 1024**3), ('MB', 1024**2), ('KB', 1024), ('B', 1)]
multipliers ==
    << [suffix |-> <<"G", "B">>, unit |-> 3], [suffix |-> <<"M", "B">>, unit |-> 2],
       [suffix |-> <<"K", "B">>, unit |-> 1], [suffix |-> <<"B">>, unit |-> 0] >>

\* int(float(number) * multiplier) inside try ... except ValueError:
\* int() of infinity raises OverflowError, which the except does not catch.
int_float_times(number, unit) ==
    CASE float_of(number).kind = "finite" -> bytes(float_of(number).value, unit)
      [] float_of(number).kind = "inf" -> raises("OverflowError")
      [] OTHER -> default_size

\* int(size_str) inside try ... except ValueError
int_or_default(str) ==
    IF is_digits(str_strip(str)) THEN bytes(int_of_digits(str_strip(str)), 0)
    ELSE default_size

RECURSIVE parse_size_loop(_, _)
parse_size_loop(size_str, i) ==
    IF i > Len(multipliers) THEN int_or_default(size_str)
    ELSE IF endswith(size_str, multipliers[i].suffix)
         THEN int_float_times(SubSeq(size_str, 1, Len(size_str) - Len(multipliers[i].suffix)),
                              multipliers[i].unit)
         ELSE parse_size_loop(size_str, i + 1)

\* GuardianScanner._parse_size(size_str)
parse_size(size_str) == parse_size_loop(str_strip(str_upper(size_str)), 1)

SizeAlphabet == {"1", "2", "K", "M", "G", "B", "I", "N", "F", "k", " "}

RECURSIVE size_strings(_)
size_strings(n) ==
    IF n = 0 THEN {<<>>}
    ELSE LET shorter == size_strings(n - 1)
         IN shorter \cup {Append(str, c) :
                            str \in {q \in shorter : Len(q) = n - 1}, c \in SizeAlphabet}

\* The call's argument is in op.path, what the call ends with in op.base.
InitParse ==
    /\ InitStore
    /\ fs = [f \in FileSet |-> no_file]
    /\ dirs = DirSet
    /\ op \in {Call("parse_size_args", size_str, NoneInt, <<>>, <<>>, <<>>, <<>>, FALSE) :
                 size_str \in size_strings(MaxSizeLen)}

ParseSize ==
    /\ op.name = "parse_size_args"
    /\ op' = Call("_parse_size", op.path, NoneInt, <<>>, <<>>, parse_size(op.path),
                  <<>>, TRUE)
    /\ UNCHANGED <<fs, dirs, clock, baselines, files, change_history, txn, reader, calls>>

NextParse == ParseSize

SpecParse == InitParse /\ [][NextParse]_vars

\* The text of a size string: upper case, without the white space around it.
size_text(size_str) == str_strip(str_upper(size_str))

\* The text is a decimal integer followed by the suffix.
has_form(text, suffix) ==
    /\ endswith(text, suffix)
    /\ is_digits(str_strip(SubSeq(text, 1, Len(text) - Len(suffix))))

number_before(text, suffix) ==
    int_of_digits(str_strip(SubSeq(text, 1, Len(text) - Len(suffix))))

\* C27: _parse_size maps a decimal integer N followed by the suffix B, KB,
\* MB or GB (case-insensitive) to N, N*1024, N*1024^2 or N*1024^3 bytes,
\* maps a bare integer N to N, and for every malformed input returns the
\* 100 MB default instead of raising.
C27_ParseSize ==
    op.name = "_parse_size" =>
        LET text == size_text(op.path)
        IN IF has_form(text, <<"G", "B">>) THEN op.base = bytes(number_before(text, <<"G", "B">>), 3)
           ELSE IF has_form(text, <<"M", "B">>) THEN op.base = bytes(number_before(text, <<"M", "B">>), 2)
           ELSE IF has_form(text, <<"K", "B">>) THEN op.base = bytes(number_before(text, <<"K", "B">>), 1)
           ELSE IF has_form(text, <<"B">>) THEN op.base = bytes(number_before(text, <<"B">>), 0)
           ELSE IF is_digits(text) THEN op.base = bytes(int_of_digits(text), 0)
           ELSE op.base = default_size

\* C27 without its last part: the well-formed inputs get the byte counts
\* the claim states and no malformed input gets another value than the
\* default; only the inputs that make _parse_size raise are left out.
C27_ParseSizeUnlessRaised ==
    (op.name = "_parse_size" /\ op.base.kind = "return") => C27_ParseSize

(***************************************************************************)
(* The monitored tree degrades between create_baseline and                 *)
(* check_integrity: SpecFault.  Files lose and regain their read           *)
(* permission, and the monitored root is removed with all it holds.        *)
(***************************************************************************)
FaultFiles == {file_d_a, file_d_b}
FaultContents == {"hello", "new"}

\* open(file_path, 'rb') of _calculate_hashes starts or stops failing.
SetReadable(f, readable) ==
    /\ fs[f].exists
    /\ fs[f].statable
    /\ fs[f].readable # readable
    /\ fs' = [fs EXCEPT ![f].readable = readable]
    /\ op' = NoCall
    /\ UNCHANGED <<dirs, clock, baselines, files, change_history, txn, reader, calls>>

\* The directory and everything beneath it is removed: os.path.exists of
\* scan_directory answers False from now on.
RemoveTree(directory) ==
    /\ directory \in dirs
    /\ dirs' = {d \in dirs : d # directory /\ ~is_above(directory, d)}
    /\ fs' = [f \in FileSet |-> IF is_above(directory, f) THEN no_file ELSE fs[f]]
    /\ op' = NoCall
    /\ UNCHANGED <<clock, baselines, files, change_history, txn, reader, calls>>

\* The one baseline of the run.
FaultCreateBaseline(path) ==
    /\ baselines = <<>>
    /\ GuardianCreateBaseline(path, None)

NextFault ==
    \/ \E f \in FaultFiles, content \in FaultContents : WriteFile(f, content)
    \/ \E f \in FaultFiles, readable \in BOOLEAN : SetReadable(f, readable)
    \/ RemoveTree(dir_d)
    \/ FaultCreateBaseline(dir_d)
    \/ GuardianCheckIntegrity(dir_d)

SpecFault == Init /\ [][NextFault]_vars

\* The records of a result that are about one file.
records_of(changes, file_path) == SelectSeq(changes, LAMBDA c : c.file_path = file_path)

\* C28: hash failures meet the diff as the empty digest: a file hashed at
\* baseline time that cannot be hashed at check time is reported MODIFIED
\* with an empty new hash, a file not hashed at baseline time that is hashed
\* at check time is reported MODIFIED with an empty old hash, and a file
\* that could be hashed at neither time is not reported, whatever its
\* content.
C28_EmptyDigestInDiff ==
    [][(GuardianCheckIntegrity(dir_d) /\ baselines # <<>>) =>
          \A f \in FaultFiles :
             (dict_has(op'.base, f) /\ fs[f].exists /\ fs[f].statable) =>
                 LET old     == dict_get(op'.base, f).hash_sha256
                     reports == records_of(op'.changes, f)
                 IN /\ (old # "" /\ ~fs[f].readable) =>
                          /\ Len(reports) = 1
                          /\ reports[1].change_type = "MODIFIED"
                          /\ reports[1].old_hash = old
                          /\ reports[1].new_hash = ""
                    /\ (old = "" /\ fs[f].readable) =>
                          /\ Len(reports) = 1
                          /\ reports[1].change_type = "MODIFIED"
                          /\ reports[1].old_hash = ""
                          /\ reports[1].new_hash = sha256_hexdigest(fs[f].content)
                    /\ (old = "" /\ ~fs[f].readable) => reports = <<>>]_vars

\* C28's case: check_integrity of /d has run with /d/a hashed in the
\* baseline and unreadable now, reported MODIFIED with an empty new hash,
\* and with /d/b unreadable at both times, of another size than in the
\* baseline, and not reported.
C28_Witness ==
    /\ op.name = "check_integrity"
    /\ op.id = 1
    /\ dict_has(op.base, file_d_a) /\ dict_has(op.base, file_d_b)
    /\ dict_get(op.base, file_d_a).hash_sha256 # ""
    /\ fs[file_d_a].exists /\ ~fs[file_d_a].readable
    /\ \E i \in 1..Len(op.changes) :
          /\ op.changes[i].file_path = file_d_a
          /\ op.changes[i].change_type = "MODIFIED"
          /\ op.changes[i].new_hash = ""
    /\ dict_get(op.base, file_d_b).hash_sha256 = ""
    /\ fs[file_d_b].exists /\ ~fs[file_d_b].readable
    /\ dict_get(op.base, file_d_b).size # fs[file_d_b].st_size
    /\ records_of(op.changes, file_d_b) = <<>>

\* The reverse case: /d/a was unreadable at baseline time and is hashed
\* now, reported MODIFIED with an empty old hash.
C28_WitnessReverse ==
    /\ op.name = "check_integrity"
    /\ op.id = 1
    /\ dict_has(op.base, file_d_a)
    /\ dict_get(op.base, file_d_a).hash_sha256 = ""
    /\ fs[file_d_a].exists /\ fs[file_d_a].readable
    /\ \E i \in 1..Len(op.changes) :
          /\ op.changes[i].file_path = file_d_a
          /\ op.changes[i].change_type = "MODIFIED"
          /\ op.changes[i].old_hash = ""
          /\ op.changes[i].new_hash # ""

\* The rows of table files that belong to one baseline.
baseline_rows(baseline_id) == SelectSeq(files, LAMBDA r : r.baseline_id = baseline_id)

\* C29: when the monitored root no longer exists and check_integrity runs
\* against an existing baseline, the scan yields no file, the result is
\* exactly one REMOVED record for every file of the baseline and no ADDED
\* or MODIFIED record, and these records are appended to the change
\* history.
C29_MissingRootAllRemoved ==
    [][(GuardianCheckIntegrity(dir_d) /\ baselines # <<>> /\ dir_d \notin dirs) =>
          LET rows == baseline_rows(op'.id)
          IN /\ op'.id \in ids_of_path(baselines, dir_d)
             /\ op'.scan = <<>>
             /\ rows # <<>>
             /\ Len(op'.changes) = Len(rows)
             /\ \A i \in 1..Len(rows) :
                   Len(records_of(op'.changes, rows[i].file_path)) = 1
             /\ \A i \in 1..Len(op'.changes) :
                   /\ op'.changes[i].change_type = "REMOVED"
                   /\ \E j \in 1..Len(rows) : rows[j].file_path = op'.changes[i].file_path
             /\ SubSeq(change_history', 1, Len(change_history)) = change_history
             /\ rows_match_changes(appended_rows, op'.changes, op'.id)]_vars

\* C29's case: check_integrity of /d has run after /d was removed, against
\* a baseline of two files, and the two REMOVED records are the last rows
\* of the change history.
C29_Witness ==
    /\ op.name = "check_integrity"
    /\ op.id = 1
    /\ dir_d \notin dirs
    /\ Len(baseline_rows(1)) = 2
    /\ Len(op.changes) = 2
    /\ Len(change_history) >= 2
    /\ change_history[Len(change_history)].change_type = "REMOVED"
    /\ change_history[Len(change_history) - 1].change_type = "REMOVED"
=============================================================================
